---- MODULE Spec2Model ----
(***************************************************************************)
(* Few-shot clickbait classification (prompting/scripts/                   *)
(* few_shot_prompting.py): the reply parser, the single-item classifier,   *)
(* the evaluation loop and the metrics aggregator.                         *)
(*                                                                         *)
(* Texts are sequences of one-character strings, so that lower(), strip(), *)
(* split() and the `in` substring test are computed character by           *)
(* character, as Python computes them.                                     *)
(*                                                                         *)
(* Three specifications share the module:                                  *)
(*   Spec        one call of run_few_shot_evaluation                       *)
(*   SpecParse   parse_prompt_response / few_shot_prompting applied to     *)
(*               bounded reply texts                                       *)
(*   SpecMetrics calculate_metrics applied to bounded sequence pairs       *)
(***************************************************************************)
EXTENDS Integers, Sequences, FiniteSets, TLC

VARIABLES
    \* ---- run_few_shot_evaluation / evaluate_few_shot_method ----
    data,          \* test_data: the loaded samples, [title, label] records
    pc,            \* position of the run
    i,             \* enumerate index of the sample being processed
    prediction,    \* local `prediction` of the current iteration
    predictions,   \* local list `predictions` of evaluate_few_shot_method
    true_labels,   \* local list `true_labels` of evaluate_few_shot_method
    metrics,       \* local `metrics` of run_few_shot_evaluation
    calls,         \* history: one record per few_shot_prompting call of the loop
    stopped_after, \* history: Len(predictions) when KeyboardInterrupt unwound the loop
    \* ---- parser specification ----
    response,      \* response.choices[0].message.content, a character sequence
    nfrag,         \* number of fragments the reply was composed of
    ppc,           \* "compose", "parsed" or "classified"
    out,           \* return value of the function applied to `response`
    \* ---- metrics specification ----
    m_predictions, \* argument `predictions` of calculate_metrics
    m_true_labels, \* argument `true_labels` of calculate_metrics
    m_result,      \* outcome of the call
    mpc            \* "call" or "returned"

evalVars == <<data, pc, i, prediction, predictions, true_labels, metrics, calls,
              stopped_after>>
parseVars == <<response, nfrag, ppc, out>>
metricVars == <<m_predictions, m_true_labels, m_result, mpc>>
vars == <<evalVars, parseVars, metricVars>>

(***************************************************************************)
(* Bounds                                                                  *)
(***************************************************************************)
MaxFrags == 3      \* fragments concatenated into one reply text
MaxSamples == 3    \* samples of one evaluation run
MaxLen == 5        \* length of the sequences handed to calculate_metrics

UNKNOWN == -1

(***************************************************************************)
(* Python string primitives                                                *)
(***************************************************************************)
UpperCase == <<"A","B","C","D","E","F","G","H","I","J","K","L","M",
               "N","O","P","Q","R","S","T","U","V","W","X","Y","Z">>
LowerCase == <<"a","b","c","d","e","f","g","h","i","j","k","l","m",
               "n","o","p","q","r","s","t","u","v","w","x","y","z">>

\* the lower-case letter of each upper-case letter
ToLower == [u \in {UpperCase[k] : k \in 1..Len(UpperCase)} |->
               LowerCase[CHOOSE k \in 1..Len(UpperCase) : UpperCase[k] = u]]

\* str.lower() on one character
LowerChar(c) == IF c \in DOMAIN ToLower THEN ToLower[c] ELSE c

\* str.lower()
Lower(s) == [k \in 1..Len(s) |-> LowerChar(s[k])]

\* characters str.strip() removes
IsSpace(c) == c \in {" ", "\t", "\n", "\r"}

\* str.strip()
Strip(s) ==
    LET keep == {k \in 1..Len(s) : ~IsSpace(s[k])}
    IN  IF keep = {} THEN <<>>
        ELSE LET lo == CHOOSE k \in keep : \A j \in keep : k <= j
                 hi == CHOOSE k \in keep : \A j \in keep : k >= j
             IN  SubSeq(s, lo, hi)

\* positions at which p occurs in s (0-based offset of the occurrence)
Occurrences(s, p) ==
    {k \in 0..(Len(s) - Len(p)) : SubSeq(s, k + 1, k + Len(p)) = p}

\* `p in s`
Contains(s, p) == Occurrences(s, p) # {}

\* s.startswith(p)
StartsWith(s, p) == Len(s) >= Len(p) /\ SubSeq(s, 1, Len(p)) = p

\* s.endswith(p)
EndsWith(s, p) == Len(s) >= Len(p) /\ SubSeq(s, Len(s) - Len(p) + 1, Len(s)) = p

\* s.split(sep): left to right, non-overlapping
RECURSIVE Split(_, _)
Split(s, sep) ==
    LET occ == Occurrences(s, sep)
    IN  IF occ = {} THEN <<s>>
        ELSE LET k == CHOOSE x \in occ : \A y \in occ : x <= y
             IN  <<SubSeq(s, 1, k)>> \o Split(SubSeq(s, k + Len(sep) + 1, Len(s)), sep)

\* s[:n]
Prefix(s, n) == SubSeq(s, 1, IF Len(s) < n THEN Len(s) ELSE n)

NEWLINE == <<"\n">>
ANSWER == <<"a","n","s","w","e","r",":">>
CLICKBAIT == <<"c","l","i","c","k","b","a","i","t">>
NO_CLICKBAIT == <<"n","o","-","c","l","i","c","k","b","a","i","t">>
NOT_CLICKBAIT == <<"n","o","t"," ","c","l","i","c","k","b","a","i","t">>

(***************************************************************************)
(* parse_prompt_response                                                   *)
(***************************************************************************)
\* patterns_1 with 'label: 1' left out of the list
patterns_1_without_label == <<
    <<"[","1","]">>,
    <<"c","l","a","s","s","i","f","i","c","a","t","i","o","n",":"," ","1">>,
    <<"a","n","s","w","e","r",":"," ","1">>,
    <<"1"," ","(","c","l","i","c","k","b","a","i","t",")">>,
    <<"1","(","c","l","i","c","k","b","a","i","t",")">>,
    <<"r","e","s","u","l","t",":"," ","1">>,
    <<"o","u","t","p","u","t",":"," ","1">>,
    <<"p","r","e","d","i","c","t","i","o","n",":"," ","1">>,
    <<"f","i","n","a","l",":"," ","1">> >>

patterns_1 == <<
    <<"[","1","]">>,
    <<"l","a","b","e","l",":"," ","1">>,
    <<"c","l","a","s","s","i","f","i","c","a","t","i","o","n",":"," ","1">>,
    <<"a","n","s","w","e","r",":"," ","1">>,
    <<"1"," ","(","c","l","i","c","k","b","a","i","t",")">>,
    <<"1","(","c","l","i","c","k","b","a","i","t",")">>,
    <<"r","e","s","u","l","t",":"," ","1">>,
    <<"o","u","t","p","u","t",":"," ","1">>,
    <<"p","r","e","d","i","c","t","i","o","n",":"," ","1">>,
    <<"f","i","n","a","l",":"," ","1">> >>

patterns_0 == <<
    <<"[","0","]">>,
    <<"l","a","b","e","l",":"," ","0">>,
    <<"c","l","a","s","s","i","f","i","c","a","t","i","o","n",":"," ","0">>,
    <<"a","n","s","w","e","r",":"," ","0">>,
    <<"0"," ","(","n","o","-","c","l","i","c","k","b","a","i","t",")">>,
    <<"0","(","n","o","-","c","l","i","c","k","b","a","i","t",")">>,
    <<"r","e","s","u","l","t",":"," ","0">>,
    <<"o","u","t","p","u","t",":"," ","0">>,
    <<"p","r","e","d","i","c","t","i","o","n",":"," ","0">>,
    <<"f","i","n","a","l",":"," ","0">> >>

\* `for pattern in patterns: if pattern in response_text`
AnyPatternIn(patterns, text) ==
    \E k \in 1..Len(patterns) : Contains(text, patterns[k])

\* line 99: the test that makes a stripped line return 1
LineSays1(line) ==
    line = <<"1">> \/ EndsWith(line, <<" ","1">>) \/ StartsWith(line, <<"1"," ">>)

\* line 101: the test that makes a stripped line return 0
LineSays0(line) ==
    line = <<"0">> \/ EndsWith(line, <<" ","0">>) \/ StartsWith(line, <<"0"," ">>)

\* the loop without reversed(): the first matching line wins, not the last
RECURSIVE ScanLinesForward(_, _)
ScanLinesForward(lines, k) ==
    IF k = 0 THEN <<>>
    ELSE LET line == Strip(lines[Len(lines) - k + 1])
         IN  IF LineSays1(line) THEN <<1>>
             ELSE IF LineSays0(line) THEN <<0>>
             ELSE ScanLinesForward(lines, k - 1)

\* `for line in reversed(lines)`: <<v>> when the loop returns v, <<>> when it ends
RECURSIVE ScanLines(_, _)
ScanLines(lines, k) ==
    IF k = 0 THEN <<>>
    ELSE LET line == Strip(lines[k])
         IN  IF LineSays1(line) THEN <<1>>
             ELSE IF LineSays0(line) THEN <<0>>
             ELSE ScanLines(lines, k - 1)

\* the keyword check ending in a guessed label 0 instead of -1
KeywordFallbackGuessing(text) ==
    IF Contains(text, CLICKBAIT) /\ ~Contains(text, NO_CLICKBAIT)
                                 /\ ~Contains(text, NOT_CLICKBAIT) THEN 1
    ELSE 0

\* lines 104-111: the keyword check and the final `return -1`
KeywordFallback(text) ==
    IF Contains(text, CLICKBAIT) /\ ~Contains(text, NO_CLICKBAIT)
                                 /\ ~Contains(text, NOT_CLICKBAIT) THEN 1
    ELSE IF Contains(text, NO_CLICKBAIT) \/ Contains(text, NOT_CLICKBAIT) THEN 0
    ELSE UNKNOWN

\* lines 95-111: everything after the explicit patterns
Fallbacks(text) ==
    LET lines == Split(Strip(text), NEWLINE)
        scan == ScanLines(lines, Len(lines))
    IN  IF scan # <<>> THEN scan[1] ELSE KeywordFallback(text)

\* the two pattern loops in the other order
parse_prompt_response_negative_first(response_text) ==
    LET text == Lower(response_text)
    IN  IF AnyPatternIn(patterns_0, text) THEN 0
        ELSE IF AnyPatternIn(patterns_1, text) THEN 1
        ELSE Fallbacks(text)

parse_prompt_response(response_text) ==
    LET text == Lower(response_text)
    IN  IF AnyPatternIn(patterns_1, text) THEN 1
        ELSE IF AnyPatternIn(patterns_0, text) THEN 0
        ELSE Fallbacks(text)

(***************************************************************************)
(* few_shot_prompting                                                      *)
(*                                                                         *)
(* What client.chat.completions.create and the read of                     *)
(* response.choices[0].message.content can do:                             *)
(*   "reply"      a reply whose content is the text `content`              *)
(*   "malformed"  a reply without usable content: the read or .strip()     *)
(*                raises (IndexError, AttributeError), an Exception        *)
(*   "error"      the client raises (network error, timeout), an Exception *)
(*   "interrupt"  KeyboardInterrupt is raised while the call blocks; it    *)
(*                derives from BaseException, not from Exception           *)
(***************************************************************************)
NoText == <<>>
Reply(content) == [kind |-> "reply", content |-> content]
Malformed == [kind |-> "malformed", content |-> NoText]
ClientError == [kind |-> "error", content |-> NoText]
ClientInterrupt == [kind |-> "interrupt", content |-> NoText]

Returned(v) == [exc |-> "none", value |-> v]
Raised(e) == [exc |-> e, value |-> UNKNOWN]

\* the fast path reading what follows the first "answer:", not the last
ParseReplyFirstAnswer(content) ==
    LET response_text == Strip(content)
        low == Lower(response_text)
    IN  IF Contains(low, ANSWER)
        THEN LET parts == Split(low, ANSWER)
                 answer_part == parts[2]
             IN  IF Contains(Prefix(answer_part, 5), <<"1">>) THEN 1
                 ELSE IF Contains(Prefix(answer_part, 5), <<"0">>) THEN 0
                 ELSE parse_prompt_response(response_text)
        ELSE parse_prompt_response(response_text)

\* lines 51-61: the parse of a reply's content
ParseReply(content) ==
    LET response_text == Strip(content)
        low == Lower(response_text)
    IN  IF Contains(low, ANSWER)
        THEN LET parts == Split(low, ANSWER)
                 answer_part == parts[Len(parts)]
             IN  IF Contains(Prefix(answer_part, 5), <<"1">>) THEN 1
                 ELSE IF Contains(Prefix(answer_part, 5), <<"0">>) THEN 0
                 ELSE parse_prompt_response(response_text)
        ELSE parse_prompt_response(response_text)

\* lines 41-61: the body of the try block
TryBody(outcome) ==
    CASE outcome.kind = "reply" -> Returned(ParseReply(outcome.content))
      [] outcome.kind = "interrupt" -> Raised("KeyboardInterrupt")
      [] OTHER -> Raised("Exception")

\* a handler that catches nothing: the client's failure propagates
ExceptNothing(r) == r

\* lines 62-64: `except Exception as e: ... return -1`
ExceptException(r) ==
    IF r.exc = "Exception" THEN Returned(UNKNOWN) ELSE r

few_shot_prompting(outcome) == ExceptException(TryBody(outcome))

(***************************************************************************)
(* calculate_metrics                                                       *)
(***************************************************************************)
\* line 168: [i for i, pred in enumerate(predictions) if pred != -1], 1-based
RECURSIVE ValidIndices(_, _)
ValidIndices(preds, k) ==
    IF k > Len(preds) THEN <<>>
    ELSE IF preds[k] # -1 THEN <<k>> \o ValidIndices(preds, k + 1)
    ELSE ValidIndices(preds, k + 1)

\* lines 169-170: [xs[i] for i in valid_indices]
Project(xs, indices) == [k \in 1..Len(indices) |-> xs[indices[k]]]

\* sklearn accuracy_score: matching positions over all positions, kept as a
\* fraction num/den
accuracy_score(y_true, y_pred) ==
    [num |-> Cardinality({k \in 1..Len(y_true) : y_true[k] = y_pred[k]}),
     den |-> Len(y_true)]

\* sklearn classification_report(y_true, y_pred, target_names=[2 names]) with no
\* `labels` argument takes the labels from the data, unique_labels(y_true,
\* y_pred), and raises ValueError("Number of classes, N, does not match size of
\* target_names, 2") when their number is not len(target_names).
classification_report_raises(y_true, y_pred) ==
    Cardinality({y_true[k] : k \in 1..Len(y_true)}
                \cup {y_pred[k] : k \in 1..Len(y_pred)}) # 2

\* lines 165-218.  precision/recall/F1 are values of the metric library and are
\* not part of the record modelled here.
calculate_metrics(preds, labels, method_name) ==
    LET valid_indices == ValidIndices(preds, 1)
        valid_predictions == Project(preds, valid_indices)
        valid_true_labels == Project(labels, valid_indices)
    IN  IF Len(valid_predictions) = 0 THEN [exc |-> "none", kind |-> "None"]
        ELSE IF classification_report_raises(valid_true_labels, valid_predictions)
        THEN [exc |-> "Exception", kind |-> "raise"]
        ELSE [exc |-> "none", kind |-> "summary",
              method |-> method_name,
              accuracy |-> accuracy_score(valid_true_labels, valid_predictions),
              valid_samples |-> Len(valid_predictions),
              total_samples |-> Len(preds)]

(***************************************************************************)
(* Inputs                                                                  *)
(***************************************************************************)
Labels == {0, 1}

\* The datasets of n samples: the j-th sample has the title of row j (titles
\* are told apart by their row) and any label
Datasets(n) ==
    {[j \in 1..n |-> [title |-> j, label |-> ls[j]]] : ls \in [1..n -> Labels]}

\* sequences over S of length n
SeqsOfLen(S, n) == [1..n -> S]

\* Reply texts of the evaluation run's model client
AnswerZero == <<"A","n","s","w","e","r",":"," ","0">>
ClearlyClickbait ==
    <<"T","h","i","s"," ","i","s"," ","c","l","e","a","r","l","y"," ",
      "c","l","i","c","k","b","a","i","t"," ","b","e","c","a","u","s","e"," ",
      "o","f"," ","t","h","e"," ","e","m","o","t","i","o","n","a","l"," ",
      "l","a","n","g","u","a","g","e","."," ","A","n","s","w","e","r",":"," ","1">>
EitherWay ==
    <<"I"," ","t","h","i","n","k"," ","t","h","i","s"," ","c","o","u","l","d"," ",
      "g","o"," ","e","i","t","h","e","r"," ","w","a","y">>
SeeLabelAbove ==
    <<"a","n","s","w","e","r",":"," ","s","e","e"," ","l","a","b","e","l"," ","0",
      " ","a","b","o","v","e",","," ","a","c","t","u","a","l","l","y"," ","1">>

ClientOutcomes ==
    {Reply(AnswerZero), Reply(ClearlyClickbait), Reply(EitherWay),
     Malformed, ClientError, ClientInterrupt}

\* Fragments the parser specification concatenates into reply texts
Fragments ==
    { <<"L","a","b","e","l",":"," ","1">>,
      <<"l","a","b","e","l",":"," ","0">>,
      <<"[","1","]">>,
      <<"[","0","]">>,
      <<"A","n","s","w","e","r",":">>,
      <<" ">>,
      <<"\n">>,
      <<"\t">>,
      <<"1">>,
      <<"0">>,
      <<"C","l","i","c","k","b","a","i","t">>,
      <<"n","o","-","c","l","i","c","k","b","a","i","t">>,
      <<"N","o","t"," ","c","l","i","c","k","b","a","i","t">>,
      <<"m","a","y","b","e">> }

\* Whole reply texts: the replies above, every explicit pattern alone, and every
\* positive pattern next to every negative one, in both orders
Range(f) == {f[k] : k \in DOMAIN f}
Examples ==
    {AnswerZero, ClearlyClickbait, EitherWay, SeeLabelAbove}
    \cup Range(patterns_1) \cup Range(patterns_0)
    \cup {p \o <<" ">> \o q : p \in Range(patterns_1), q \in Range(patterns_0)}
    \cup {q \o <<"\n">> \o p : p \in Range(patterns_1), q \in Range(patterns_0)}

(***************************************************************************)
(* Initial states                                                          *)
(***************************************************************************)
Unassigned == [exc |-> "none", kind |-> "unassigned"]

EvalIdle ==
    /\ data = <<>> /\ pc = "idle" /\ i = 0 /\ prediction = UNKNOWN
    /\ predictions = <<>> /\ true_labels = <<>> /\ metrics = Unassigned
    /\ calls = <<>> /\ stopped_after = 0

ParseIdle == response = <<>> /\ nfrag = 0 /\ ppc = "idle" /\ out = UNKNOWN

MetricsIdle ==
    /\ m_predictions = <<>> /\ m_true_labels = <<>>
    /\ m_result = Unassigned /\ mpc = "idle"

\* run_few_shot_evaluation after load_evaluation_data returned test_data
Init ==
    /\ \E n \in 0..MaxSamples : data \in Datasets(n)
    /\ pc = "loaded" /\ i = 0 /\ prediction = UNKNOWN
    /\ predictions = <<>> /\ true_labels = <<>> /\ metrics = Unassigned
    /\ calls = <<>> /\ stopped_after = 0
    /\ ParseIdle /\ MetricsIdle

InitParse ==
    /\ response = <<>> /\ nfrag = 0 /\ ppc = "compose" /\ out = UNKNOWN
    /\ EvalIdle /\ MetricsIdle

InitMetrics ==
    /\ \E n \in 0..MaxLen :
          /\ m_predictions \in SeqsOfLen({0, 1, UNKNOWN}, n)
          /\ m_true_labels \in SeqsOfLen(Labels, n)
    /\ m_result = Unassigned /\ mpc = "call"
    /\ EvalIdle /\ ParseIdle

(***************************************************************************)
(* run_few_shot_evaluation and evaluate_few_shot_method                    *)
(***************************************************************************)
\* lines 259-263: `if not test_data: return`, otherwise enter the try block;
\* lines 222-223: evaluate_few_shot_method starts with two empty lists
CheckData ==
    /\ pc = "loaded"
    /\ pc' = IF data = <<>> THEN "no_data" ELSE "iterate"
    /\ predictions' = <<>> /\ true_labels' = <<>>
    /\ UNCHANGED <<data, i, prediction, metrics, calls, stopped_after>>
    /\ UNCHANGED <<parseVars, metricVars>>

\* line 229: the for loop takes the next sample
NextItem ==
    /\ pc = "iterate" /\ i < Len(data)
    /\ pc' = "classify"
    /\ UNCHANGED <<data, i, prediction, predictions, true_labels, metrics, calls,
                   stopped_after>>
    /\ UNCHANGED <<parseVars, metricVars>>

\* handlers that report metrics on what the loop had collected
UnwindReporting(exc) ==
    /\ pc' = IF exc = "KeyboardInterrupt" THEN "stopped" ELSE "failed"
    /\ stopped_after' = Len(predictions)
    /\ metrics' = calculate_metrics(predictions, true_labels, "few_shot")
    /\ UNCHANGED <<data, i, prediction, predictions, true_labels>>

\* lines 265-278: an exception leaves evaluate_few_shot_method, whose frame and
\* lists are released, and reaches the handlers of run_few_shot_evaluation:
\* KeyboardInterrupt prints "Stopped by user", Exception prints the error.
\* Neither handler calls calculate_metrics.
Unwind(exc) ==
    /\ pc' = IF exc = "KeyboardInterrupt" THEN "stopped" ELSE "failed"
    /\ stopped_after' = Len(predictions)
    /\ predictions' = <<>> /\ true_labels' = <<>>
    /\ UNCHANGED <<data, i, prediction, metrics>>

\* lines 230-235: prediction = few_shot_prompting(client, title)
Classify ==
    /\ pc = "classify"
    /\ \E o \in ClientOutcomes :
          LET r == few_shot_prompting(o)
          IN  /\ calls' = Append(calls, [title |-> data[i + 1].title,
                                         failed |-> o.kind \in {"malformed", "error"},
                                         exc |-> r.exc, value |-> r.value])
              /\ IF r.exc = "none"
                 THEN /\ prediction' = r.value
                      /\ pc' = "append_prediction"
                      /\ UNCHANGED <<data, i, predictions, true_labels, metrics,
                                     stopped_after>>
                 ELSE Unwind(r.exc)
    /\ UNCHANGED <<parseVars, metricVars>>

\* line 236
AppendPrediction ==
    /\ pc = "append_prediction"
    /\ predictions' = Append(predictions, prediction)
    /\ pc' = "append_label"
    /\ UNCHANGED <<data, i, prediction, true_labels, metrics, calls, stopped_after>>
    /\ UNCHANGED <<parseVars, metricVars>>

\* the label of the first sample appended at every iteration
AppendFirstLabel ==
    /\ pc = "append_label"
    /\ true_labels' = Append(true_labels, data[1].label)
    /\ pc' = "sleep"
    /\ UNCHANGED <<data, i, prediction, predictions, metrics, calls, stopped_after>>
    /\ UNCHANGED <<parseVars, metricVars>>

\* line 237
AppendLabel ==
    /\ pc = "append_label"
    /\ true_labels' = Append(true_labels, data[i + 1].label)
    /\ pc' = "sleep"
    /\ UNCHANGED <<data, i, prediction, predictions, metrics, calls, stopped_after>>
    /\ UNCHANGED <<parseVars, metricVars>>

\* lines 239-246: the progress line and time.sleep(delay) end the iteration
Sleep ==
    /\ pc = "sleep"
    /\ i' = i + 1
    /\ pc' = "iterate"
    /\ UNCHANGED <<data, prediction, predictions, true_labels, metrics, calls,
                   stopped_after>>
    /\ UNCHANGED <<parseVars, metricVars>>

\* KeyboardInterrupt raised in evaluate_few_shot_method outside the client call
\* (between two statements, or in time.sleep)
Interrupt ==
    /\ pc \in {"iterate", "append_prediction", "append_label", "sleep"}
    /\ Unwind("KeyboardInterrupt")
    /\ UNCHANGED calls
    /\ UNCHANGED <<parseVars, metricVars>>

\* line 248 and lines 266-268: the loop is exhausted and the lists are returned
ReturnLists ==
    /\ pc = "iterate" /\ i = Len(data)
    /\ pc' = "aggregate"
    /\ UNCHANGED <<data, i, prediction, predictions, true_labels, metrics, calls,
                   stopped_after>>
    /\ UNCHANGED <<parseVars, metricVars>>

\* lines 269-273 (and 277-278 when calculate_metrics raises)
Aggregate ==
    /\ pc = "aggregate"
    /\ LET r == calculate_metrics(predictions, true_labels, "few_shot")
       IN  IF r.exc = "none"
           THEN /\ metrics' = r
                /\ pc' = IF r.kind = "summary" THEN "completed" ELSE "no_metrics"
           ELSE /\ metrics' = metrics
                /\ pc' = "failed"
    /\ UNCHANGED <<data, i, prediction, predictions, true_labels, calls, stopped_after>>
    /\ UNCHANGED <<parseVars, metricVars>>

Next ==
    \/ CheckData \/ NextItem \/ Classify \/ AppendPrediction \/ AppendLabel
    \/ Sleep \/ Interrupt \/ ReturnLists \/ Aggregate

Spec == Init /\ [][Next]_vars

(***************************************************************************)
(* The parser applied to bounded reply texts                               *)
(***************************************************************************)
AppendFragment ==
    /\ ppc = "compose" /\ nfrag < MaxFrags
    /\ \E f \in Fragments : response' = response \o f
    /\ nfrag' = nfrag + 1
    /\ UNCHANGED <<ppc, out>>
    /\ UNCHANGED <<evalVars, metricVars>>

TakeExample ==
    /\ ppc = "compose" /\ nfrag = 0
    /\ response' \in Examples
    /\ nfrag' = MaxFrags
    /\ UNCHANGED <<ppc, out>>
    /\ UNCHANGED <<evalVars, metricVars>>

\* parse_prompt_response(response)
CallParse ==
    /\ ppc = "compose"
    /\ out' = parse_prompt_response(response)
    /\ ppc' = "parsed"
    /\ UNCHANGED <<response, nfrag>>
    /\ UNCHANGED <<evalVars, metricVars>>

\* few_shot_prompting with a client that replies `response`
CallClassify ==
    /\ ppc = "compose"
    /\ out' = few_shot_prompting(Reply(response)).value
    /\ ppc' = "classified"
    /\ UNCHANGED <<response, nfrag>>
    /\ UNCHANGED <<evalVars, metricVars>>

NextParse == AppendFragment \/ TakeExample \/ CallParse \/ CallClassify

SpecParse == InitParse /\ [][NextParse]_vars

(***************************************************************************)
(* calculate_metrics applied to bounded sequence pairs                     *)
(***************************************************************************)
CallMetrics ==
    /\ mpc = "call"
    /\ m_result' = calculate_metrics(m_predictions, m_true_labels, "few_shot")
    /\ mpc' = "returned"
    /\ UNCHANGED <<m_predictions, m_true_labels>>
    /\ UNCHANGED <<evalVars, parseVars>>

NextMetrics == CallMetrics

SpecMetrics == InitMetrics /\ [][NextMetrics]_vars

(***************************************************************************)
(* Properties                                                              *)
(***************************************************************************)
SetMax(S) == CHOOSE x \in S : \A y \in S : x >= y

Low == Lower(response)
HasPositiveMarker == AnyPatternIn(patterns_1, Low)
HasNegativeMarker == AnyPatternIn(patterns_0, Low)
HasKeyword ==
    Contains(Low, CLICKBAIT) \/ Contains(Low, NO_CLICKBAIT) \/ Contains(Low, NOT_CLICKBAIT)
LABEL_1 == <<"l","a","b","e","l",":"," ","1">>
LABEL_0 == <<"l","a","b","e","l",":"," ","0">>

\* the lines of the reply, trimmed, and those the line rules match
TrimmedLines == LET ls == Split(Low, NEWLINE) IN [k \in 1..Len(ls) |-> Strip(ls[k])]
MatchingLines ==
    {k \in 1..Len(TrimmedLines) : LineSays1(TrimmedLines[k]) \/ LineSays0(TrimmedLines[k])}

\* the positions with a definite prediction, and those among them that are right
ValidPositions == {k \in 1..Len(m_predictions) : m_predictions[k] # UNKNOWN}
CorrectPositions == {k \in ValidPositions : m_predictions[k] = m_true_labels[k]}

\* the loop of evaluate_few_shot_method ended without an exception
LoopCompleted ==
    \/ pc \in {"aggregate", "completed", "no_metrics"}
    \/ pc = "failed" /\ Len(calls) = Len(data) /\ calls[Len(calls)].exc = "none"

\* C1: a failure of the model client never leaves few_shot_prompting: the call
\* returns UNKNOWN for that sample, the loop goes on with the remaining samples,
\* and a run that is not interrupted ends with one prediction per sample.
C1_FailuresBecomeUnknown ==
    /\ \A j \in 1..Len(calls) :
          calls[j].failed => calls[j].exc = "none" /\ calls[j].value = UNKNOWN
    /\ pc = "failed" => LoopCompleted
    /\ LoopCompleted =>
          /\ Len(predictions) = Len(data)
          /\ Len(calls) = Len(data)
          /\ \A j \in 1..Len(data) : calls[j].title = data[j].title

\* C1 witness: a run completed after a failed call that was followed by a
\* successful one
C1_Witness ==
    /\ pc = "completed"
    /\ \E j \in 1..Len(calls) : \E k \in 1..Len(calls) :
          j < k /\ calls[j].failed /\ ~calls[k].failed /\ calls[k].value # UNKNOWN

C3_IndexAligned ==
    /\ pc = "iterate" =>
          /\ Len(predictions) = i /\ Len(true_labels) = i /\ Len(calls) = i
          /\ \A j \in 1..i :
                /\ true_labels[j] = data[j].label
                /\ calls[j].title = data[j].title
                /\ predictions[j] = calls[j].value
    /\ pc \in {"aggregate", "completed", "no_metrics"} =>
          Len(predictions) = Len(data) /\ Len(true_labels) = Len(data)

\* C3 witness: an iteration boundary after two samples with different labels
\* and different predictions
C3_Witness ==
    /\ pc = "iterate" /\ i >= 2
    /\ data[1].label # data[2].label
    /\ predictions[1] # predictions[2]

\* C4: for equal-length inputs with at least one definite prediction,
\* calculate_metrics reports valid_samples = the number of definite predictions,
\* total_samples = the input length, and accuracy = correct definite
\* predictions / valid_samples.
C4_FilteredMetrics ==
    (mpc = "returned" /\ ValidPositions # {}) =>
        /\ m_result.kind = "summary"
        /\ m_result.valid_samples = Cardinality(ValidPositions)
        /\ m_result.total_samples = Len(m_predictions)
        /\ m_result.valid_samples <= m_result.total_samples
        /\ m_result.accuracy = [num |-> Cardinality(CorrectPositions),
                                den |-> Cardinality(ValidPositions)]

\* C5: calculate_metrics returns None exactly when no prediction is definite,
\* and a summary with valid_samples >= 1 in every other case.
C5_NoneIffNoValid ==
    mpc = "returned" =>
        /\ (m_result.kind = "None") <=> (ValidPositions = {})
        /\ ValidPositions # {} =>
              m_result.kind = "summary" /\ m_result.valid_samples >= 1

\* C6 as stated: a text containing "label: 1" parses to 1, and a text
\* containing "label: 0" parses to 0, whatever surrounds the marker.
C6_LabelMarkerDecides ==
    ppc = "parsed" =>
        /\ Contains(Low, LABEL_1) => out = 1
        /\ Contains(Low, LABEL_0) => out = 0

\* C6 amended: a text containing "label: 1" parses to 1; a text containing
\* "label: 0" and no positive explicit marker parses to 0.
C6_LabelMarkerAmended ==
    ppc = "parsed" =>
        /\ Contains(Low, LABEL_1) => out = 1
        /\ (Contains(Low, LABEL_0) /\ ~HasPositiveMarker) => out = 0

\* C6 witness: a parsed text with "label: 0", no positive marker and a line
\* that the line rule for 1 matches
C6_Witness ==
    /\ ppc = "parsed" /\ Contains(Low, LABEL_0) /\ ~HasPositiveMarker
    /\ \E k \in MatchingLines : LineSays1(TrimmedLines[k])
    /\ out = 0

\* C7: a text with a positive and a negative explicit marker parses to 1.
C7_PositiveWins ==
    (ppc = "parsed" /\ HasPositiveMarker /\ HasNegativeMarker) => out = 1

\* C7 witness: a parsed text that starts with a negative marker and has a
\* positive marker after it
C7_Witness ==
    /\ ppc = "parsed" /\ HasPositiveMarker
    /\ \E k \in 1..Len(patterns_0) : StartsWith(Low, patterns_0[k])

\* C8 as stated: without explicit markers and without fallback keywords the
\* parse is UNKNOWN.
C8_NoMarkerNoKeyword ==
    (ppc = "parsed" /\ ~HasPositiveMarker /\ ~HasNegativeMarker /\ ~HasKeyword)
        => out = UNKNOWN

\* C8 amended: without explicit markers, without fallback keywords and without
\* a line the line rules match, the parse is UNKNOWN.
C8_NothingMatches ==
    (ppc = "parsed" /\ ~HasPositiveMarker /\ ~HasNegativeMarker /\ ~HasKeyword
                    /\ MatchingLines = {})
        => out = UNKNOWN

\* C8 witness: "I think this could go either way", parsed
C8_Witness == ppc = "parsed" /\ response = EitherWay

\* what follows the last "answer:" of the lower-cased reply
AfterLastAnswer ==
    SubSeq(Low, SetMax(Occurrences(Low, ANSWER)) + Len(ANSWER) + 1, Len(Low))

\* C9: few_shot_prompting returns 1 when the reply contains "answer:" and a 1
\* is among the 5 characters after its last occurrence, else 0 when a 0 is among
\* them, and parse_prompt_response(reply) in every other case; "Answer: 0"
\* gives 0 and the "clearly clickbait ... Answer: 1" reply gives 1.
C9_TwoStageParse ==
    ppc = "classified" =>
        /\ out = IF Contains(Low, ANSWER) /\ Contains(Prefix(AfterLastAnswer, 5), <<"1">>)
                 THEN 1
                 ELSE IF Contains(Low, ANSWER)
                         /\ Contains(Prefix(AfterLastAnswer, 5), <<"0">>)
                 THEN 0
                 ELSE parse_prompt_response(response)
        /\ response = AnswerZero => out = 0
        /\ response = ClearlyClickbait => out = 1

\* C9 witness: a classified reply with two "answer:" whose last one decides 0
C9_Witness ==
    /\ ppc = "classified"
    /\ Cardinality(Occurrences(Low, ANSWER)) >= 2
    /\ out = 0

====
